---- MODULE Spec2Model ----
(***************************************************************************)
(* Concurrent keyword search over a list of files (src/search.py).         *)
(*                                                                         *)
(* A run takes a list of distinct file paths, a set of keywords and a      *)
(* worker count.  The coordinator (run_threading / run_multiprocessing)    *)
(* splits the list with chunkify, starts one worker per non-empty chunk,   *)
(* waits for them and merges their partial results with merge_results.     *)
(*                                                                         *)
(* Strings are sequences of one-character strings, so that the Python      *)
(* test `keyword in content` is modelled as what it is: the search for a   *)
(* contiguous subsequence.  Python indices are kept 0-based for the list   *)
(* of chunks and for the workers; a TLA+ sequence s holds Python's s[i]    *)
(* at s[i + 1].                                                            *)
(***************************************************************************)
EXTENDS Integers, Sequences, FiniteSets, TLC

\* ------------------------------------------------------------------ bounds
\* Longest file list the caller passes.
MaxFiles == 3
\* Largest worker count the caller passes (num_threads / num_processes).
MaxWorkers == 4
\* Longest list of dictionaries merge_results is called on by itself.
MaxPartials == 3

\* ----------------------------------------------------------------- strings
apple == <<"a", "p", "p", "l", "e">>
banana == <<"b", "a", "n", "a", "n", "a">>
kiwi == <<"k", "i", "w", "i">>
\* The keywords a caller may search for.
Keywords == {apple, banana, kiwi}
\* A keyword that is no word of any file but occurs in all three texts
\* (in "apple" and in "split").
pl == <<"p", "l">>

ApplePie == <<"a", "p", "p", "l", "e", " ", "p", "i", "e">>
BananaSplit == <<"b", "a", "n", "a", "n", "a", " ", "s", "p", "l", "i", "t">>
AppleBanana == <<"a", "p", "p", "l", "e", " ", "b", "a", "n", "a", "n", "a">>

\* The file paths a caller may pass.
Paths == {"f1.txt", "f2.txt", "f3.txt", "missing.txt", "binary.dat"}

\* What open(path, 'r', encoding='utf-8') followed by f.read() yields for
\* each path: the text, or the exception raised (FileNotFoundError is an
\* OSError; UnicodeDecodeError is a ValueError, caught as Exception).
Disk ==
    [p \in Paths |->
        CASE p = "f1.txt" -> [err |-> "none", text |-> ApplePie]
          [] p = "f2.txt" -> [err |-> "none", text |-> BananaSplit]
          [] p = "f3.txt" -> [err |-> "none", text |-> AppleBanana]
          [] p = "missing.txt" -> [err |-> "OSError", text |-> <<>>]
          [] p = "binary.dat" -> [err |-> "UnicodeDecodeError", text |-> <<>>]]

\* Python's `keyword in content` on strings.
IsSubstring(k, c) ==
    \E i \in 0..(Len(c) - Len(k)) : SubSeq(c, i + 1, i + Len(k)) = k

\* ------------------------------------------------------------ dictionaries
\* A defaultdict(list) / dict is a function from its keys to lists.
EmptyDict == [k \in {} |-> <<>>]

\* d[k] of a defaultdict(list) read without inserting.
Lookup(d, k) == IF k \in DOMAIN d THEN d[k] ELSE <<>>

\* ------------------------------------------------------------------ search
\* Faulty variant of ScanFile: an entry for every keyword, matched or not.
ScanFileAllKeys(local, file_path, kws) ==
    IF Disk[file_path].err # "none"
    THEN local
    ELSE [k \in DOMAIN local \cup kws |->
             IF IsSubstring(k, Disk[file_path].text)
             THEN Append(Lookup(local, k), file_path)
             ELSE Lookup(local, k)]

\* Faulty variant of ScanFile: insert(0, file_path) for append(file_path).
ScanFilePrepend(local, file_path, kws) ==
    IF Disk[file_path].err # "none"
    THEN local
    ELSE LET hit == {k \in kws : IsSubstring(k, Disk[file_path].text)}
         IN  [k \in DOMAIN local \cup hit |->
                 IF k \in hit
                 THEN <<file_path>> \o Lookup(local, k)
                 ELSE local[k]]

\* One iteration of the `for file_path in files` loop: the try block with
\* its two except clauses, both of which only print and go on.
ScanFile(local, file_path, kws) ==
    IF Disk[file_path].err # "none"
    THEN local
    ELSE LET hit == {k \in kws : IsSubstring(k, Disk[file_path].text)}
         IN  [k \in DOMAIN local \cup hit |->
                 IF k \in hit
                 THEN Append(Lookup(local, k), file_path)
                 ELSE local[k]]

\* Faulty variant of search_loop: a failing read ends the scan of the chunk.
RECURSIVE search_loop_abort(_, _, _)
search_loop_abort(fs, kws, local) ==
    IF fs = <<>> \/ Disk[Head(fs)].err # "none"
    THEN local
    ELSE search_loop_abort(Tail(fs), kws, ScanFile(local, Head(fs), kws))

RECURSIVE search_loop(_, _, _)
search_loop(fs, kws, local) ==
    IF fs = <<>>
    THEN local
    ELSE search_loop(Tail(fs), kws, ScanFile(local, Head(fs), kws))

\* Faulty variant of search_keywords_in_files: local_results starts with an
\* empty list for every keyword.
search_seeded(fs, kws) == search_loop(fs, kws, [k \in kws |-> <<>>])

\* local_results as returned (and, with a queue, as put on it).
search_keywords_in_files(fs, kws) == search_loop(fs, kws, EmptyDict)

\* ------------------------------------------------------------------- merge
\* Faulty variant of Extend: final_dict[key] = paths.
ExtendOverwrite(final_dict, res) ==
    [k \in DOMAIN final_dict \cup DOMAIN res |->
        IF k \in DOMAIN res THEN res[k] ELSE final_dict[k]]

\* Faulty variant of Extend: a set union, a path already listed is not added.
ExtendUnion(final_dict, res) ==
    [k \in DOMAIN final_dict \cup DOMAIN res |->
        Lookup(final_dict, k) \o
        SelectSeq(Lookup(res, k),
                  LAMBDA p : \A j \in 1..Len(Lookup(final_dict, k)) :
                                 Lookup(final_dict, k)[j] # p)]

\* The inner loop of merge_results: final_dict[key].extend(paths).
Extend(final_dict, res) ==
    [k \in DOMAIN final_dict \cup DOMAIN res |->
        Lookup(final_dict, k) \o Lookup(res, k)]

RECURSIVE merge_loop(_, _)
merge_loop(results_list, final_dict) ==
    IF results_list = <<>>
    THEN final_dict
    ELSE merge_loop(Tail(results_list), Extend(final_dict, Head(results_list)))

merge_results(results_list) == merge_loop(results_list, EmptyDict)

\* ---------------------------------------------------------------- chunkify
\* Faulty variant of Slice: the length rounded down, losing the last element
\* of a chunk when the step does not divide the rest of the list.
SliceFloor(lst, start, step) ==
    LET count == IF start >= Len(lst) THEN 0 ELSE (Len(lst) - start) \div step
    IN  [j \in 1..count |-> lst[start + 1 + (j - 1) * step]]

\* lst[start::step] for start >= 0 and step >= 1.
Slice(lst, start, step) ==
    LET count == IF start >= Len(lst)
                 THEN 0
                 ELSE (Len(lst) - start + step - 1) \div step
    IN  [j \in 1..count |-> lst[start + 1 + (j - 1) * step]]

\* Faulty variant of chunkify: contiguous blocks, lst[i*size:(i+1)*size].
chunkify_blocks(lst, n) ==
    LET size == (Len(lst) + n - 1) \div n
    IN  [i \in 0..(n - 1) |->
            SubSeq(lst, i * size + 1,
                   IF (i + 1) * size <= Len(lst) THEN (i + 1) * size ELSE Len(lst))]

\* Faulty variant of chunkify: lst[i:] for lst[i::n].
chunkify_overlap(lst, n) ==
    [i \in 0..(n - 1) |-> SubSeq(lst, i + 1, Len(lst))]

\* [lst[i::n] for i in range(n)], indexed by i.
chunkify(lst, n) == [i \in 0..(n - 1) |-> Slice(lst, i, n)]

\* ------------------------------------------------------------------- state
VARIABLES
    files,          \* argument: the list of file paths
    keywords,       \* argument: the set of keywords
    num_workers,    \* argument: num_threads / num_processes
    strategy,       \* "threads" (run_threading) or "processes" (run_multiprocessing)
    pc,             \* coordinator: "start", "spawn", "collect", "join", "merge", "done"
    idx,            \* coordinator: the current loop's iteration count
    file_chunks,    \* coordinator: chunkify's result
    spawned,        \* coordinator: the `threads` / `processes` list, as chunk indices
    wpc,            \* each worker: "unstarted", "running", "finished", "crashed"
    results,        \* threads: the shared `results` list; processes: `results_list`
    queue,          \* processes: the multiprocessing.Queue, oldest first
    deposited,      \* history: the workers in the order they deposited a result
    final_result,   \* the mapping the run returns
    first           \* caller: the call made before this one, with what it returned

vars ==
    <<files, keywords, num_workers, strategy, pc, idx, file_chunks, spawned,
      wpc, results, queue, deposited, final_result, first>>

\* What a step of a run leaves alone: its arguments and the caller's record.
inputs == <<files, keywords, num_workers, strategy, first>>

\* The caller's record before it has called anything.
NoCall == [called |-> FALSE, n |-> 0, strategy |-> "", result |-> <<>>]

\* Lists of distinct paths of length at most MaxFiles.
RECURSIVE DistinctSeqs(_)
DistinctSeqs(len) ==
    IF len = 0
    THEN {<<>>}
    ELSE LET shorter == DistinctSeqs(len - 1)
         IN  shorter \cup
             {Append(s, p) : <<s, p>> \in
                 {sp \in shorter \X Paths :
                     /\ Len(sp[1]) = len - 1
                     /\ \A j \in 1..Len(sp[1]) : sp[1][j] # sp[2]}}

FileLists == DistinctSeqs(MaxFiles)

\* The state at the call of run_threading / run_multiprocessing.
Init ==
    /\ files \in FileLists
    /\ keywords \in SUBSET Keywords
    /\ num_workers \in 1..MaxWorkers
    /\ strategy \in {"threads", "processes"}
    /\ pc = "start"
    /\ idx = 0
    /\ file_chunks = <<>>
    /\ spawned = <<>>
    /\ wpc = [w \in 0..(num_workers - 1) |-> "unstarted"]
    /\ results = <<>>
    /\ queue = <<>>
    /\ deposited = <<>>
    /\ final_result = EmptyDict
    /\ first = NoCall

\* ------------------------------------------------------------- coordinator
\* Faulty variant of AfterSpawn: the joins come first in both strategies.
AfterSpawnJoinFirst(sp) == IF sp = <<>> THEN "merge" ELSE "join"

\* Where the coordinator goes once the spawn loop ends with `sp` started.
AfterSpawn(sp) ==
    IF sp = <<>>
    THEN "merge"
    ELSE IF strategy = "threads" THEN "join" ELSE "collect"

\* threads = [] / results = [] / queue = Queue(); file_chunks = chunkify(...).
Start ==
    /\ pc = "start"
    /\ file_chunks' = chunkify(files, num_workers)
    /\ idx' = 0
    /\ pc' = IF num_workers >= 1 THEN "spawn" ELSE "merge"
    /\ UNCHANGED <<inputs, spawned, wpc, results, queue, deposited, final_result>>

\* Faulty variant of ShouldSpawn: the emptiness test left out.
SpawnAlways(chunk) == TRUE

\* The chunks the spawn loop starts a worker for.
ShouldSpawn(chunk) == chunk # <<>>

\* One iteration of `for i in range(num_workers)` that starts a worker.
SpawnWorker ==
    /\ pc = "spawn"
    /\ idx < num_workers
    /\ ShouldSpawn(file_chunks[idx])
    /\ spawned' = Append(spawned, idx)
    /\ wpc' = [wpc EXCEPT ![idx] = "running"]
    /\ idx' = IF idx + 1 < num_workers THEN idx + 1 ELSE 0
    /\ pc' = IF idx + 1 < num_workers THEN "spawn" ELSE AfterSpawn(spawned')
    /\ UNCHANGED <<inputs, file_chunks, results, queue, deposited, final_result>>

\* One iteration of the spawn loop that takes `continue`.
SkipEmptyChunk ==
    /\ pc = "spawn"
    /\ idx < num_workers
    /\ ~ShouldSpawn(file_chunks[idx])
    /\ idx' = IF idx + 1 < num_workers THEN idx + 1 ELSE 0
    /\ pc' = IF idx + 1 < num_workers THEN "spawn" ELSE AfterSpawn(spawned)
    /\ UNCHANGED <<inputs, file_chunks, spawned, wpc, results, queue, deposited,
                   final_result>>

\* Faulty variant of QueueGet: the item read is left on the queue.
QueuePeek(q) == [item |-> Head(q), rest |-> q]

\* Faulty variant of QueueGet: the newest item is taken, not the oldest.
QueueGetNewest(q) == [item |-> q[Len(q)], rest |-> SubSeq(q, 1, Len(q) - 1)]

\* The item queue.get() returns and what it leaves on the queue.
QueueGet(q) == [item |-> Head(q), rest |-> Tail(q)]

\* Faulty variant of Collect: one get per chunk, `range(num_processes)`,
\* where no process was started for the empty ones.
CollectPerChunk ==
    /\ pc = "collect"
    /\ idx < num_workers
    /\ queue # <<>>
    /\ results' = Append(results, QueueGet(queue).item)
    /\ queue' = QueueGet(queue).rest
    /\ idx' = IF idx + 1 < num_workers THEN idx + 1 ELSE 0
    /\ pc' = IF idx + 1 < num_workers THEN "collect" ELSE "join"
    /\ UNCHANGED <<inputs, file_chunks, spawned, wpc, deposited, final_result>>

\* One iteration of `for _ in range(len(processes))`: a blocking queue.get().
Collect ==
    /\ pc = "collect"
    /\ idx < Len(spawned)
    /\ queue # <<>>
    /\ results' = Append(results, QueueGet(queue).item)
    /\ queue' = QueueGet(queue).rest
    /\ idx' = IF idx + 1 < Len(spawned) THEN idx + 1 ELSE 0
    /\ pc' = IF idx + 1 < Len(spawned) THEN "collect" ELSE "join"
    /\ UNCHANGED <<inputs, file_chunks, spawned, wpc, deposited, final_result>>

\* Faulty variant of Join: returns whether or not the worker has ended.
JoinNoWait ==
    /\ pc = "join"
    /\ idx < Len(spawned)
    /\ idx' = IF idx + 1 < Len(spawned) THEN idx + 1 ELSE 0
    /\ pc' = IF idx + 1 < Len(spawned) THEN "join" ELSE "merge"
    /\ UNCHANGED <<inputs, file_chunks, spawned, wpc, results, queue, deposited,
                   final_result>>

\* Faulty variant of Join: every iteration waits for the first worker.
JoinFirstOnly ==
    /\ pc = "join"
    /\ idx < Len(spawned)
    /\ wpc[spawned[1]] \in {"finished", "crashed"}
    /\ idx' = IF idx + 1 < Len(spawned) THEN idx + 1 ELSE 0
    /\ pc' = IF idx + 1 < Len(spawned) THEN "join" ELSE "merge"
    /\ UNCHANGED <<inputs, file_chunks, spawned, wpc, results, queue, deposited,
                   final_result>>

\* One iteration of `for t in threads: t.join()` / `for p in processes:
\* p.join()`: returns once that worker has ended, however it ended.
Join ==
    /\ pc = "join"
    /\ idx < Len(spawned)
    /\ wpc[spawned[idx + 1]] \in {"finished", "crashed"}
    /\ idx' = IF idx + 1 < Len(spawned) THEN idx + 1 ELSE 0
    /\ pc' = IF idx + 1 < Len(spawned) THEN "join" ELSE "merge"
    /\ UNCHANGED <<inputs, file_chunks, spawned, wpc, results, queue, deposited,
                   final_result>>

\* The dictionaries of the collected entries, in list order.
Partials(rs) == [j \in 1..Len(rs) |-> rs[j].res]

\* final_result = merge_results(results); return final_result.
Merge ==
    /\ pc = "merge"
    /\ final_result' = merge_results(Partials(results))
    /\ pc' = "done"
    /\ idx' = 0
    /\ UNCHANGED <<inputs, file_chunks, spawned, wpc, results, queue, deposited>>

\* ----------------------------------------------------------------- workers
\* What a worker deposits: its local_results (`worker` is a history tag
\* naming the producer; the program's lists hold the dictionary alone).
Deposit(w) ==
    [worker |-> w, res |-> search_keywords_in_files(file_chunks[w], keywords)]

\* thread_worker: res = search_keywords_in_files(...); res_list.append(res).
\* The scan touches only the worker's own data; list.append is atomic.
ThreadWorker(w) ==
    /\ strategy = "threads"
    /\ wpc[w] = "running"
    /\ results' = Append(results, Deposit(w))
    /\ deposited' = Append(deposited, w)
    /\ wpc' = [wpc EXCEPT ![w] = "finished"]
    /\ UNCHANGED <<inputs, pc, idx, file_chunks, spawned, queue, final_result>>

\* process_worker: search_keywords_in_files(..., result_queue=queue), which
\* ends with result_queue.put(local_results).
ProcessWorker(w) ==
    /\ strategy = "processes"
    /\ wpc[w] = "running"
    /\ queue' = Append(queue, Deposit(w))
    /\ deposited' = Append(deposited, w)
    /\ wpc' = [wpc EXCEPT ![w] = "finished"]
    /\ UNCHANGED <<inputs, pc, idx, file_chunks, spawned, results, final_result>>

\* A worker ends abnormally before it deposits anything (an exception that
\* escapes the scan, such as a failing print in an except clause; a killed
\* process).
Crash(w) ==
    /\ wpc[w] = "running"
    /\ wpc' = [wpc EXCEPT ![w] = "crashed"]
    /\ UNCHANGED <<inputs, pc, idx, file_chunks, spawned, results, queue,
                   deposited, final_result>>

Workers == DOMAIN wpc

\* ------------------------------------------------------------------ caller
\* Faulty variant of CallAgain: the collected list is kept from the first
\* call (a module-level `results` instead of a local).
CallAgainKeepResults(n2, s2) ==
    /\ pc = "done"
    /\ ~first.called
    /\ first' = [called |-> TRUE, n |-> num_workers, strategy |-> strategy,
                 result |-> final_result]
    /\ num_workers' = n2
    /\ strategy' = s2
    /\ pc' = "start"
    /\ idx' = 0
    /\ file_chunks' = <<>>
    /\ spawned' = <<>>
    /\ wpc' = [w \in 0..(n2 - 1) |-> "unstarted"]
    /\ queue' = <<>>
    /\ deposited' = <<>>
    /\ final_result' = EmptyDict
    /\ UNCHANGED <<files, keywords, results>>

\* The caller keeps what the call returned and calls again on the same files
\* and keywords, with n2 workers and strategy s2, as the main block does
\* (res_thread = run_threading(...); res_process = run_multiprocessing(...)).
\* Every local of the run starts afresh.
CallAgain(n2, s2) ==
    /\ pc = "done"
    /\ ~first.called
    /\ first' = [called |-> TRUE, n |-> num_workers, strategy |-> strategy,
                 result |-> final_result]
    /\ num_workers' = n2
    /\ strategy' = s2
    /\ pc' = "start"
    /\ idx' = 0
    /\ file_chunks' = <<>>
    /\ spawned' = <<>>
    /\ wpc' = [w \in 0..(n2 - 1) |-> "unstarted"]
    /\ results' = <<>>
    /\ queue' = <<>>
    /\ deposited' = <<>>
    /\ final_result' = EmptyDict
    /\ UNCHANGED <<files, keywords>>

Next ==
    \/ Start
    \/ SpawnWorker
    \/ SkipEmptyChunk
    \/ Collect
    \/ Join
    \/ Merge
    \/ \E w \in Workers : ThreadWorker(w)
    \/ \E w \in Workers : ProcessWorker(w)

\* Runs in which every worker runs to its end.
Spec == Init /\ [][Next]_vars

NextCrash ==
    \/ Next
    \/ \E w \in Workers : Crash(w)

\* Runs in which workers may also end abnormally.
SpecCrash == Init /\ [][NextCrash]_vars

\* The main block: run_threading, then run_multiprocessing with the same
\* files, keywords and worker count.
InitMain == Init /\ strategy = "threads"

NextMain ==
    \/ Next
    \/ CallAgain(num_workers, "processes")

SpecMain == InitMain /\ [][NextMain]_vars

\* A sequential call (one worker), then a call of the same strategy with
\* another worker count.
InitSequential == Init /\ num_workers = 1

NextWorkers ==
    \/ Next
    \/ \E n2 \in 2..MaxWorkers : CallAgain(n2, strategy)

SpecWorkers == InitSequential /\ [][NextWorkers]_vars

\* The coordinator's steps.
Coordinator ==
    \/ Start
    \/ SpawnWorker
    \/ SkipEmptyChunk
    \/ Collect
    \/ Join
    \/ Merge

\* Runs under a scheduler that does not starve the program: while a thread
\* or process can take a step, one is eventually taken.
SpecFair == Spec /\ WF_vars(Next)

\* The same call made twice: same files, keywords, worker count, strategy.
NextRepeat ==
    \/ Next
    \/ CallAgain(num_workers, strategy)

SpecRepeat == Init /\ [][NextRepeat]_vars

\* Calls with any integer worker count, valid or not.
InitAnyCount ==
    /\ files \in FileLists
    /\ keywords \in SUBSET Keywords
    /\ num_workers \in (0 - 1)..MaxWorkers
    /\ strategy \in {"threads", "processes"}
    /\ pc = "start"
    /\ idx = 0
    /\ file_chunks = <<>>
    /\ spawned = <<>>
    /\ wpc = [w \in 0..(num_workers - 1) |-> "unstarted"]
    /\ results = <<>>
    /\ queue = <<>>
    /\ deposited = <<>>
    /\ final_result = EmptyDict
    /\ first = NoCall

SpecAnyCount == InitAnyCount /\ [][Next]_vars

\* merge_results called on any list of dictionaries, whether or not a scan
\* could have produced them: keys with empty lists, a path in several
\* dictionaries.
PartialLists == {<<>>, <<"f1.txt">>, <<"f2.txt">>, <<"f1.txt", "f2.txt">>}

PartialDicts == UNION {[ks -> PartialLists] : ks \in SUBSET {apple, banana}}

PartialSeqs == UNION {[1..m -> PartialDicts] : m \in 0..MaxPartials}

InitMerge ==
    /\ files = <<>>
    /\ keywords = {apple, banana}
    /\ num_workers = 1
    /\ strategy = "threads"
    /\ pc = "merge"
    /\ idx = 0
    /\ file_chunks = <<>>
    /\ spawned = <<>>
    /\ wpc = [w \in {} |-> "unstarted"]
    /\ \E ps \in PartialSeqs :
           results = [j \in 1..Len(ps) |-> [worker |-> j - 1, res |-> ps[j]]]
    /\ queue = <<>>
    /\ deposited = <<>>
    /\ final_result = EmptyDict
    /\ first = NoCall

SpecMerge == InitMerge /\ [][Merge]_vars

\* Calls whose keywords include one found in every readable file, so that a
\* key's list can hold the files of several chunks and several of one chunk.
InitBlocks ==
    /\ files \in FileLists
    /\ keywords \in {ks \in SUBSET (Keywords \cup {pl}) : pl \in ks}
    /\ num_workers \in 1..MaxWorkers
    /\ strategy \in {"threads", "processes"}
    /\ pc = "start"
    /\ idx = 0
    /\ file_chunks = <<>>
    /\ spawned = <<>>
    /\ wpc = [w \in 0..(num_workers - 1) |-> "unstarted"]
    /\ results = <<>>
    /\ queue = <<>>
    /\ deposited = <<>>
    /\ final_result = EmptyDict
    /\ first = NoCall

SpecBlocks == InitBlocks /\ [][Next]_vars

\* ------------------------------------------------------------------ claims
Range(s) == {s[j] : j \in 1..Len(s)}

\* How many times p occurs in the list s.
Count(p, s) == Cardinality({j \in 1..Len(s) : s[j] = p})

Readable(p) == Disk[p].err = "none"

\* k occurs in c as a contiguous block.
Occurs(k, c) ==
    \E i \in 0..Len(c) : \E j \in i..Len(c) : SubSeq(c, i + 1, j) = k

\* (k, p) is a true match of the run's input.
TrueMatch(k, p) ==
    /\ k \in keywords
    /\ p \in Range(files)
    /\ Readable(p)
    /\ Occurs(k, Disk[p].text)

\* Two mappings have the same keys and, per key, the same multiset of files.
SameContent(a, b) ==
    /\ DOMAIN a = DOMAIN b
    /\ \A k \in DOMAIN a : \A p \in Paths : Count(p, a[k]) = Count(p, b[k])

\* The workers that produced the entries of a list, in list order.
Tags(rs) == [j \in 1..Len(rs) |-> rs[j].worker]

\* Everything deposited so far: collected entries, then those still queued.
AllDeposits == results \o queue

\* C1: when a run returns, the (keyword, file) pairs of the returned mapping
\* are exactly the true matches, each once: a file is listed under a keyword
\* once if it is in the input, readable and contains the keyword, and not at
\* all otherwise; whatever the interleaving of the workers.
C1_ExactMatches ==
    pc = "done" =>
        /\ DOMAIN final_result \subseteq Keywords
        /\ \A k \in Keywords : \A p \in Paths :
               Count(p, Lookup(final_result, k)) = IF TrueMatch(k, p) THEN 1 ELSE 0

\* A run of three workers that deposited out of spawn order, over a list with
\* an unreadable file, returning a keyword found in two files.
C1_Witness ==
    /\ pc = "done"
    /\ Len(spawned) = 3
    /\ Tags(results) # spawned
    /\ \E p \in Range(files) : ~Readable(p)
    /\ \E k \in DOMAIN final_result : Len(final_result[k]) = 2

\* C2: a sequential call (one worker) and a later call of the same strategy
\* on the same files and keywords with another worker count return mappings
\* with the same keys and, per key, the same multiset of files, whatever the
\* scheduling.  (Content equality is symmetric and transitive, so any two
\* worker counts agree once each agrees with the sequential call.)
C2_WorkerCountIrrelevant ==
    (/\ pc = "done"
     /\ first.called
     /\ first.strategy = strategy
     /\ first.n # num_workers) =>
        SameContent(first.result, final_result)

\* A second call with three workers started whose lists are ordered
\* otherwise than the sequential call's.
C2_Witness ==
    /\ pc = "done"
    /\ first.called
    /\ first.n = 1
    /\ num_workers = 3
    /\ Len(spawned) = 3
    /\ first.result # final_result
    /\ \E k \in DOMAIN final_result : Len(final_result[k]) = 2

\* C3: run_threading and then run_multiprocessing on the same files, keywords
\* and worker count return mappings with the same keys and, per key, the
\* same multiset of files; the order within a list may differ.
C3_StrategiesAgree ==
    (/\ pc = "done"
     /\ first.called
     /\ first.strategy = "threads"
     /\ strategy = "processes"
     /\ first.n = num_workers) =>
        SameContent(first.result, final_result)

\* Both strategies ran with several workers and returned the same content
\* in different list orders.
C3_Witness ==
    /\ pc = "done"
    /\ first.called
    /\ first.strategy = "threads"
    /\ strategy = "processes"
    /\ Len(spawned) >= 2
    /\ first.result # final_result
    /\ DOMAIN final_result # {}

\* The (chunk, position) pairs at which p sits in the chunks.
Placements(p) ==
    {ij \in (DOMAIN file_chunks) \X (1..Len(files)) :
        /\ ij[2] <= Len(file_chunks[ij[1]])
        /\ file_chunks[ij[1]][ij[2]] = p}

\* chunkify has just returned: the coordinator is at the head of the spawn
\* loop, before its first iteration.
ChunkifyReturned == pc = "spawn" /\ idx = 0 /\ spawned = <<>>

\* C4: chunkify returns exactly num_workers chunks, and every occurrence of a
\* file in the list sits in exactly one place of exactly one chunk: nothing
\* dropped, nothing duplicated.
C4_ChunksPartition ==
    ChunkifyReturned =>
        /\ DOMAIN file_chunks = 0..(num_workers - 1)
        /\ \A p \in Paths : Cardinality(Placements(p)) = Count(p, files)
        /\ \A i \in DOMAIN file_chunks :
               Len(file_chunks[i]) <= Len(files)

\* Three files split unevenly over two workers.
C4_Witness ==
    /\ ChunkifyReturned
    /\ num_workers = 2
    /\ Len(files) = 3
    /\ Len(file_chunks[0]) = 2
    /\ Len(file_chunks[1]) = 1

\* How many deposits of worker w a list holds.
DepositsOf(w, rs) == Cardinality({j \in 1..Len(rs) : rs[j].worker = w})

\* C5: every spawned worker deposits exactly one partial result and the
\* coordinator collects exactly one per spawned worker: a worker that has not
\* finished has deposited nothing, one that has finished exactly one, and
\* when merge_results is called the collected list holds, for each spawned
\* worker, its partial result once and nothing else.
C5_CollectedExactlyOnce ==
    /\ \A w \in Workers :
           DepositsOf(w, AllDeposits) = IF wpc[w] = "finished" THEN 1 ELSE 0
    /\ pc = "merge" =>
           /\ Len(results) = Len(spawned)
           /\ queue = <<>>
           /\ \A w \in Range(spawned) :
                  /\ DepositsOf(w, results) = 1
                  /\ \A j \in 1..Len(results) :
                         results[j].worker = w =>
                             results[j].res =
                                 search_keywords_in_files(file_chunks[w], keywords)

\* merge_results is about to be called on three partial results that were
\* deposited out of spawn order.
C5_Witness ==
    /\ pc = "merge"
    /\ Len(spawned) = 3
    /\ Len(results) = 3
    /\ Tags(results) # spawned

\* C6: a file whose read fails is in no list of the result, the scan goes on
\* with the next file of the chunk, and the entries of the other files are
\* what they would be without the failing file: every partial result is the
\* scan of its chunk with the failing files removed, and the returned
\* mapping lists every readable file that contains a keyword, once.
C6_FailedFileSkipped ==
    /\ \A j \in 1..Len(AllDeposits) :
           AllDeposits[j].res =
               search_keywords_in_files(
                   SelectSeq(file_chunks[AllDeposits[j].worker], Readable),
                   keywords)
    /\ pc = "done" =>
           /\ \A k \in DOMAIN final_result :
                  \A p \in Range(final_result[k]) : Readable(p)
           /\ \A p \in Range(files) : \A k \in keywords :
                  (Readable(p) /\ Occurs(k, Disk[p].text)) =>
                      Count(p, Lookup(final_result, k)) = 1

\* A run returned in which a chunk held a failing file before a readable one
\* that is in the result.
C6_Witness ==
    /\ pc = "done"
    /\ \E w \in Range(spawned) :
           /\ Len(file_chunks[w]) >= 2
           /\ ~Readable(file_chunks[w][1])
           /\ \E k \in DOMAIN final_result :
                  file_chunks[w][2] \in Range(final_result[k])

\* C7: if a worker ends abnormally before it deposits its partial result, the
\* run does not return a mapping as if nothing had happened, and it does not
\* hang: the coordinator is never at its return with a crashed worker, and
\* never blocked in queue.get() with nothing queued and no worker left to
\* put anything.
C7_CrashSurfaced ==
    (\E w \in Workers : wpc[w] = "crashed") =>
        /\ pc # "done"
        /\ ~(/\ pc = "collect"
             /\ queue = <<>>
             /\ \A w \in Workers : wpc[w] # "running")

Min(a, b) == IF a <= b THEN a ELSE b

\* C8: no worker is started for an empty chunk, and once the spawn loop is
\* over the workers started are min(num_workers, len(files)) in number; the
\* processes coordinator performs that many queue gets.
C8_NoWorkerForEmptyChunk ==
    /\ \A w \in Workers : wpc[w] # "unstarted" => file_chunks[w] # <<>>
    /\ \A j \in 1..Len(spawned) : file_chunks[spawned[j]] # <<>>
    /\ pc \in {"collect", "join", "merge", "done"} =>
           /\ Len(spawned) = Min(num_workers, Len(files))
           /\ Cardinality({w \in Workers : wpc[w] # "unstarted"}) =
                  Min(num_workers, Len(files))
    /\ (strategy = "processes" /\ pc \in {"join", "merge", "done"}) =>
           Len(results) = Len(spawned)

\* Four workers asked for, three files: three processes started, three gets.
C8_Witness ==
    /\ pc = "done"
    /\ strategy = "processes"
    /\ num_workers = 4
    /\ Len(files) = 3
    /\ Len(spawned) = 3
    /\ Len(results) = 3
    /\ wpc[3] = "unstarted"

\* The partial results of the started workers, in the order `order` names.
PartialsOf(order) ==
    [j \in 1..Len(order) |->
        search_keywords_in_files(file_chunks[order[j]], keywords)]

\* C9 as stated: the partial results handed to merge_results are in spawn
\* order, so the returned lists are those of a merge in spawn order.
C9_SpawnOrder ==
    pc \in {"merge", "done"} =>
        /\ Tags(results) = spawned
        /\ pc = "done" => final_result = merge_results(PartialsOf(spawned))

\* C9 amended: the partial results handed to merge_results are in the order
\* in which the workers deposited them (list append / queue put), which is a
\* permutation of spawn order; the returned lists are those of a merge in
\* deposit order, hence those of spawn order when the workers deposited in it.
C9_DepositOrder ==
    pc \in {"merge", "done"} =>
        /\ Tags(results) = deposited
        /\ Len(deposited) = Len(spawned)
        /\ Range(deposited) = Range(spawned)
        /\ pc = "done" =>
               /\ final_result = merge_results(PartialsOf(deposited))
               /\ SameContent(final_result, merge_results(PartialsOf(spawned)))
               /\ deposited = spawned =>
                      final_result = merge_results(PartialsOf(spawned))

\* A run returned whose lists differ from those of a merge in spawn order.
C9_Witness ==
    /\ pc = "done"
    /\ deposited # spawned
    /\ final_result # merge_results(PartialsOf(spawned))

\* The run of the three-file example: worker count 1 to 3, either strategy.
ExampleReturned ==
    /\ pc = "done"
    /\ files = <<"f1.txt", "f2.txt", "f3.txt">>
    /\ keywords = {apple, banana, kiwi}
    /\ num_workers \in 1..3

\* The lists of apple and banana in the example, up to order.
ExampleLists ==
    /\ Len(final_result[apple]) = 2
    /\ Range(final_result[apple]) = {"f1.txt", "f3.txt"}
    /\ Len(final_result[banana]) = 2
    /\ Range(final_result[banana]) = {"f2.txt", "f3.txt"}

\* C10 as stated: the example returns {apple: [f1, f3], banana: [f2, f3],
\* kiwi: []} up to list order, with an entry for kiwi.
C10_KiwiEntry ==
    ExampleReturned =>
        /\ DOMAIN final_result = {apple, banana, kiwi}
        /\ ExampleLists
        /\ final_result[kiwi] = <<>>

\* C10 amended: the example returns {apple: [f1, f3], banana: [f2, f3]} up
\* to list order, with no entry for kiwi.
C10_NoKiwiEntry ==
    ExampleReturned =>
        /\ DOMAIN final_result = {apple, banana}
        /\ ExampleLists

\* The example run with three workers, f3's worker depositing before f1's.
C10_Witness ==
    /\ ExampleReturned
    /\ num_workers = 3
    /\ final_result[apple] = <<"f3.txt", "f1.txt">>

\* C11: with no worker crashing and a scheduler that does not starve the
\* program, every run of either strategy returns: each started worker
\* deposits, every blocking join and queue get returns.  No state before the
\* return is a deadlock: a run that stopped in one would be fair (nothing is
\* enabled there) and would never return.
C11_Terminates == <>(pc = "done")

\* A processes run returned although a started worker could read none of
\* the files of its chunk.
C11_Witness ==
    /\ pc = "done"
    /\ strategy = "processes"
    /\ Len(spawned) >= 2
    /\ \E w \in Range(spawned) :
           \A j \in 1..Len(file_chunks[w]) : ~Readable(file_chunks[w][j])

\* C12: an empty file list, and an empty keyword set, are not errors: the run
\* starts its workers (none when the list is empty), is never stuck before
\* its return, and returns a mapping with no entries.
C12_EmptyInputs ==
    /\ files = <<>> =>
           /\ spawned = <<>>
           /\ \A w \in Workers : wpc[w] = "unstarted"
    /\ (keywords = {} /\ pc \in {"merge", "done"}) =>
           Len(spawned) = Min(num_workers, Len(files))
    /\ (files = <<>> \/ keywords = {}) =>
           /\ pc = "done" \/ ENABLED Next
           /\ pc = "done" => final_result = EmptyDict

\* A run over three files with no keyword returned, three workers started.
C12_Witness ==
    /\ pc = "done"
    /\ keywords = {}
    /\ Len(files) = 3
    /\ Len(spawned) = 3
    /\ final_result = EmptyDict

\* C13: the same call made twice (same files, keywords, worker count and
\* strategy, files unchanged) returns mappings with the same keys and, per
\* key, the same multiset of files, however the workers of either call are
\* scheduled; the second call starts from fresh locals.
C13_Idempotent ==
    /\ (first.called /\ pc = "start") =>
           /\ results = <<>>
           /\ queue = <<>>
           /\ spawned = <<>>
           /\ \A w \in Workers : wpc[w] = "unstarted"
    /\ (/\ pc = "done"
        /\ first.called
        /\ first.strategy = strategy
        /\ first.n = num_workers) =>
           SameContent(first.result, final_result)

\* The second of two equal calls returned, with several workers and lists
\* ordered otherwise than the first time.
C13_Witness ==
    /\ pc = "done"
    /\ first.called
    /\ first.strategy = strategy
    /\ first.n = num_workers
    /\ Len(spawned) >= 2
    /\ first.result # final_result
    /\ DOMAIN final_result # {}

\* C14: in the processes strategy every queue.get, one per started process,
\* is done before any join: while the coordinator is in the join loop the
\* collected list holds one message of each started process, nothing is
\* left on the queue, and every process it waits for has delivered.
C14_GetsBeforeJoins ==
    (strategy = "processes" /\ pc = "join") =>
        /\ Len(results) = Len(spawned)
        /\ queue = <<>>
        /\ \A j \in 1..Len(spawned) :
               /\ DepositsOf(spawned[j], results) = 1
               /\ wpc[spawned[j]] = "finished"

\* The coordinator is at its first join after three gets.
C14_Witness ==
    /\ strategy = "processes"
    /\ pc = "join"
    /\ idx = 0
    /\ Len(spawned) = 3
    /\ Len(results) = 3

\* C15: in the threads strategy merge_results is called only once every
\* started thread has finished: from the call on no thread is running, every
\* started thread's result is in the list, and the list that was merged is
\* the list as it is at the return (nothing appended meanwhile).
C15_MergeAfterJoins ==
    (strategy = "threads" /\ pc \in {"merge", "done"}) =>
        /\ \A w \in Workers : wpc[w] # "running"
        /\ \A j \in 1..Len(spawned) : DepositsOf(spawned[j], results) = 1
        /\ pc = "done" => final_result = merge_results(Partials(results))

\* merge_results is about to be called on the results of three threads.
C15_Witness ==
    /\ strategy = "threads"
    /\ pc = "merge"
    /\ Len(spawned) = 3
    /\ \A w \in Range(spawned) : wpc[w] = "finished"

\* C16: chunkify deals the files round-robin and keeps their order: the file
\* at index i is in chunk i mod n at position i div n, the chunks hold
\* nothing else, and their sizes differ by at most one.
C16_RoundRobin ==
    ChunkifyReturned =>
        /\ \A i \in 0..(Len(files) - 1) :
               /\ (i \div num_workers) + 1 <= Len(file_chunks[i % num_workers])
               /\ file_chunks[i % num_workers][(i \div num_workers) + 1] =
                      files[i + 1]
        /\ \A c \in DOMAIN file_chunks :
               \A j \in 1..Len(file_chunks[c]) :
                   (j - 1) * num_workers + c < Len(files)
        /\ \A c, d \in DOMAIN file_chunks :
               Len(file_chunks[c]) - Len(file_chunks[d]) <= 1

\* Three files dealt to two workers: the first and third, and the second.
C16_Witness ==
    /\ ChunkifyReturned
    /\ num_workers = 2
    /\ Len(files) = 3
    /\ file_chunks[0] = <<files[1], files[3]>>
    /\ file_chunks[1] = <<files[2]>>

\* The lists of key k in the dictionaries ps, one after the other.
RECURSIVE ConcatKey(_, _)
ConcatKey(ps, k) ==
    IF ps = <<>> THEN <<>> ELSE Lookup(Head(ps), k) \o ConcatKey(Tail(ps), k)

\* C17: merge_results concatenates per key: the keys of the result are those
\* of the dictionaries, each key's list is its lists in the dictionaries one
\* after the other in input order (a path listed twice stays twice), and
\* merging is associative: the result is also the merge of the merges of any
\* prefix and the rest.
C17_MergeIsConcatenation ==
    pc = "done" =>
        LET ps == Partials(results)
        IN  /\ DOMAIN final_result = UNION {DOMAIN ps[j] : j \in 1..Len(ps)}
            /\ \A k \in DOMAIN final_result : final_result[k] = ConcatKey(ps, k)
            /\ \A c \in 0..Len(ps) :
                   final_result =
                       merge_results(<<merge_results(SubSeq(ps, 1, c)),
                                       merge_results(SubSeq(ps, c + 1, Len(ps)))>>)

\* Three dictionaries were merged and a path is listed twice under a key.
C17_Witness ==
    /\ pc = "done"
    /\ Len(results) = 3
    /\ \E k \in DOMAIN final_result : Count("f1.txt", final_result[k]) >= 2

\* The index of path p in the input list, and the chunk that index is
\* dealt to.
IndexOf(p) == CHOOSE i \in 0..(Len(files) - 1) : files[i + 1] = p

PartOf(p) == IndexOf(p) % num_workers

\* C18: in the returned mapping every key's list is made of whole chunk
\* blocks: two files of one chunk stand in input order, and everything
\* between them is of that chunk too, under every scheduling.
C18_WholeBlocks ==
    pc = "done" =>
        \A k \in DOMAIN final_result :
            \A a, b \in 1..Len(final_result[k]) :
                (a < b /\ PartOf(final_result[k][a]) = PartOf(final_result[k][b])) =>
                    /\ IndexOf(final_result[k][a]) < IndexOf(final_result[k][b])
                    /\ \A c \in a..b :
                           PartOf(final_result[k][c]) = PartOf(final_result[k][a])

\* Two workers, three files holding the keyword, the second worker first:
\* its file, then the first worker's two in input order.
C18_Witness ==
    /\ pc = "done"
    /\ num_workers = 2
    /\ Len(files) = 3
    /\ pl \in DOMAIN final_result
    /\ final_result[pl] = <<files[2], files[1], files[3]>>

\* The keywords of the call that occur in a readable file of the list.
FoundKeywords ==
    {k \in keywords :
        \E p \in Range(files) : Readable(p) /\ Occurs(k, Disk[p].text)}

\* C19: a keyword contained in no readable file never maps to a non-empty
\* list, and the run returns as for any other keyword; here it has no entry
\* at all: the keys of the returned mapping are exactly the keywords that
\* occur in a readable file, each with a non-empty list.
C19_KeysAreFoundKeywords ==
    pc = "done" =>
        /\ DOMAIN final_result = FoundKeywords
        /\ \A k \in DOMAIN final_result : final_result[k] # <<>>

\* A run returned a mapping with entries but none for a keyword that was
\* asked for and is in no readable file.
C19_Witness ==
    /\ pc = "done"
    /\ kiwi \in keywords
    /\ kiwi \notin DOMAIN final_result
    /\ banana \in keywords
    /\ banana \notin DOMAIN final_result
    /\ apple \in DOMAIN final_result
    /\ \E p \in Range(files) : ~Readable(p)

\* C20: a worker count below 1 is rejected: a call with num_workers < 1 and
\* a non-empty file list never returns a mapping.
C20_InvalidCountRejected ==
    (num_workers < 1 /\ files # <<>>) => pc # "done"

====
